---- MODULE Spec2Model ----
(***************************************************************************)
(* Model of src/duplicate_finder.py (class DuplicateFinder): the scan      *)
(* find_duplicates and the resolution delete_duplicates, run one after the *)
(* other as find_and_delete_duplicates runs them.                          *)
(*                                                                         *)
(* The filesystem is a fixed tree under the root /r, four regular files    *)
(* and one sub-directory, and one regular file outside the root.  Each     *)
(* file under the root has a content, chosen in Init, and a status that    *)
(* external activity can change while the program runs (the file is        *)
(* removed, or read access to it is revoked).  A path may be a symbolic    *)
(* link to another file.  A file's modification time is read from the      *)
(* filesystem when stat() is called, which happens at most once per file.  *)
(***************************************************************************)
EXTENDS Integers, Sequences, FiniteSets, TLC

VARIABLES
    content,        \* regular file -> its bytes
    linkTo,         \* symbolic link -> the regular file it points to
    mtime,          \* file -> the st_mtime that stat() returned for it
    status,         \* path -> "ok" | "unreadable" | "gone"
    envLeft,        \* external filesystem events still allowed in this run
    tampered,       \* a file was removed externally after the scan hashed it
    pc,             \* position of the program
    directory,      \* what the root argument names: "dir" (the tree /r) |
                    \* "empty" (a directory without entries) | "missing" |
                    \* "file"
    recursive,      \* argument of find_duplicates
    files,          \* find_duplicates: the enumerated regular files, in order
    hashLog,        \* find_duplicates: file -> what _calculate_hash did for it
    duplicates,     \* the mapping find_duplicates returned, in insertion order
    keep_strategy,  \* argument of delete_duplicates
    dry_run,        \* argument of delete_duplicates
    kept,           \* delete_duplicates: keep_file of every set gone through
    reported,       \* paths logged "[DRY RUN] Would delete duplicate"
    attempted,      \* paths on which unlink() was called
    deleted_files,  \* delete_duplicates: the list it returns
    warnings,       \* number of "Unknown strategy" warnings logged
    results         \* << the dictionary find_and_delete_duplicates returned >>

vars == <<content, linkTo, mtime, status, envLeft, tampered, pc, directory, recursive,
          files, hashLog, duplicates, keep_strategy, dry_run, kept,
          reported, attempted, deleted_files, warnings, results>>

---------------------------------------------------------------------------
(* Bounds of the model *)

\* modification times range over 1..MaxTime
MaxTime == 2

\* external filesystem events (removal, revoked access) per run
MaxEnv == 2

---------------------------------------------------------------------------
(* The tree under the root, in the order rglob('*') yields it: the         *)
(* children of the root first, then the children of the sub-directory.     *)

Entries == << "/r/bb.txt", "/r/a.txt", "/r/sub", "/r/dd.txt", "/r/sub/c.txt" >>

Dirs == { "/r/sub" }

Nested == { "/r/sub/c.txt" }

RegularFiles == { Entries[i] : i \in DOMAIN Entries } \ Dirs

\* a regular file that is not under the root
Outside == { "/o/z.txt" }

\* every non-directory path of the filesystem
Disk == RegularFiles \cup Outside

\* the ways one path of the tree is a symbolic link to another: a link
\* that is listed before its target, and one that is listed after it
Links == { "/r/bb.txt" :> "/r/dd.txt", "/r/dd.txt" :> "/r/a.txt" }

Contents == { "", "x" }

Strategies == { "keep_oldest", "keep_newest", "keep_shortest_path",
                "keep_first", "keep_largest" }

---------------------------------------------------------------------------
(* Sequence helpers *)

Range(s) == { s[i] : i \in DOMAIN s }

IndexOf(s, x) == CHOOSE i \in DOMAIN s : s[i] = x

RECURSIVE Filter(_, _)
Filter(s, keepSet) ==
    IF s = << >> THEN << >>
    ELSE IF Head(s) \in keepSet
         THEN << Head(s) >> \o Filter(Tail(s), keepSet)
         ELSE Filter(Tail(s), keepSet)

---------------------------------------------------------------------------
(* _calculate_hash *)

\* hashlib.md5(bytes).hexdigest()
Md5(bytes) ==
    CASE bytes = ""  -> "d41d8cd98f00b204e9800998ecf8427e"
      [] bytes = "x" -> "9dd4e461268c8034f5c8564e155c67a6"
      [] OTHER       -> "415290769594460e2e485922904f345d"

\* the file a path resolves to: open(), stat() and is_file() follow a
\* symbolic link, unlink() does not
Target(f) == IF f \in DOMAIN linkTo THEN linkTo[f] ELSE f

\* open(file_path, 'rb') and the reads succeed
CanRead(st, f) == st[f] = "ok" /\ st[Target(f)] = "ok"

\* What the call does: it returns a value or raises to its caller.
\* The except clause logs the error and returns the empty string.
CalculateHash(st, f) ==
    IF CanRead(st, f)
    THEN [ raised |-> FALSE, value |-> Md5(content[Target(f)]),
           readOk |-> TRUE ]
    ELSE [ raised |-> FALSE, value |-> "", readOk |-> FALSE ]

---------------------------------------------------------------------------
(* find_duplicates *)

\* directory.rglob('*') / directory.glob('*'): nothing when the root is not
\* an existing directory; entries that were removed are not listed
\* a listing that starts at the parent of the root
GlobParent(dir, rec, st) ==
    IF dir # "dir" THEN << >>
    ELSE Filter(Entries \o << "/o/z.txt" >>,
                { e \in Range(Entries) \cup Outside :
                    /\ (e \in Nested => rec)
                    /\ (e \in Disk => st[e] # "gone") })

Glob(dir, rec, st) ==
    IF dir # "dir" THEN << >>
    ELSE Filter(Entries,
                { e \in Range(Entries) :
                    /\ (e \in Nested => rec)
                    /\ (e \in Disk => st[e] # "gone") })

\* f.is_file(): true of a regular file and of a symbolic link to one
IsFile(st, e) == e \in Disk /\ st[e] # "gone" /\ st[Target(e)] # "gone"

EnumerateFiles(dir, rec, st) ==
    Filter(Glob(dir, rec, st), { e \in Disk : IsFile(st, e) })

\* a lookup that ignores the hash: every file goes to the first key
AddToKeyAny(h2f, h, f) ==
    IF h2f = << >>
    THEN << [ hash |-> h, files |-> << f >> ] >>
    ELSE [ h2f EXCEPT ![1].files = Append(@, f) ]

\* an insertion at the front of the list instead of an append
AddToKeyFront(h2f, h, f) ==
    IF \E i \in DOMAIN h2f : h2f[i].hash = h
    THEN [ i \in DOMAIN h2f |->
             IF h2f[i].hash = h
             THEN [ h2f[i] EXCEPT !.files = << f >> \o @ ]
             ELSE h2f[i] ]
    ELSE Append(h2f, [ hash |-> h, files |-> << f >> ])

\* hash_to_files[file_hash].append(file_path), creating the key when new
AddToKey(h2f, h, f) ==
    IF \E i \in DOMAIN h2f : h2f[i].hash = h
    THEN [ i \in DOMAIN h2f |->
             IF h2f[i].hash = h
             THEN [ h2f[i] EXCEPT !.files = Append(@, f) ]
             ELSE h2f[i] ]
    ELSE Append(h2f, [ hash |-> h, files |-> << f >> ])

\* a loop that does not skip the files without a hash
IsNoHashNever(file_hash) == FALSE

\* if not file_hash
IsNoHash(file_hash) == file_hash = ""

\* the loop over files: a file whose hash is empty is skipped
RECURSIVE GroupFiles(_, _, _)
GroupFiles(fs, hlog, h2f) ==
    IF fs = << >> THEN h2f
    ELSE LET file_hash == hlog[Head(fs)].value
         IN  IF IsNoHash(file_hash)
             THEN GroupFiles(Tail(fs), hlog, h2f)
             ELSE GroupFiles(Tail(fs), hlog, AddToKey(h2f, file_hash, Head(fs)))

\* a filter that is off by one: len(files) > 0
IsDuplicateSetLoose(entry) == Len(entry.files) > 0

\* {h: files for h, files in hash_to_files.items() if len(files) > 1}
IsDuplicateSet(entry) == Len(entry.files) > 1

OnlyDuplicates(h2f) == SelectSeq(h2f, IsDuplicateSet)

HashAll(fs, st) == [ f \in Range(fs) |-> CalculateHash(st, f) ]

\* an exception of _calculate_hash would leave find_duplicates, which
\* catches nothing
HashRaised(hlog) == \E f \in DOMAIN hlog : hlog[f].raised

\* the whole of find_duplicates on a given filesystem state
FindDuplicatesOn(dir, rec, st) ==
    LET fs == EnumerateFiles(dir, rec, st)
    IN  OnlyDuplicates(GroupFiles(fs, HashAll(fs, st), << >>))

---------------------------------------------------------------------------
(* delete_duplicates *)

\* min(file_paths, key=...) / max(file_paths, key=...): the first of the
\* elements with the least / greatest key
\* a min() that returns an element with the greatest key
MinByGreatest(paths, key) ==
    paths[CHOOSE i \in DOMAIN paths :
            /\ \A j \in DOMAIN paths : key[paths[i]] >= key[paths[j]]
            /\ \A j \in 1..(i - 1) : key[paths[j]] < key[paths[i]]]

MinBy(paths, key) ==
    paths[CHOOSE i \in DOMAIN paths :
            /\ \A j \in DOMAIN paths : key[paths[i]] <= key[paths[j]]
            /\ \A j \in 1..(i - 1) : key[paths[j]] > key[paths[i]]]

\* a max() that returns the last of the elements with the greatest key
MaxByLast(paths, key) ==
    paths[CHOOSE i \in DOMAIN paths :
            /\ \A j \in DOMAIN paths : key[paths[i]] >= key[paths[j]]
            /\ \A j \in (i + 1)..Len(paths) : key[paths[j]] < key[paths[i]]]

MaxBy(paths, key) ==
    paths[CHOOSE i \in DOMAIN paths :
            /\ \A j \in DOMAIN paths : key[paths[i]] >= key[paths[j]]
            /\ \A j \in 1..(i - 1) : key[paths[j]] < key[paths[i]]]

\* len(str(p))
PathLen == [ p \in Disk |-> Len(p) ]

\* p.stat() raises for a path that no longer exists, or that is a link to
\* a file that no longer exists
StatRaises(st, paths) ==
    \E i \in DOMAIN paths :
        st[paths[i]] = "gone" \/ st[Target(paths[i])] = "gone"

\* p.stat().st_mtime: the time of the file the path resolves to
StMtime(mt) == [ p \in DOMAIN mt |-> mt[Target(p)] ]

\* the names the if/elif chain recognizes; any other name takes the
\* else branch, which logs a warning
IsKnown(strategy) ==
    strategy \in { "keep_oldest", "keep_newest", "keep_shortest_path",
                   "keep_first" }

\* the strategies whose key function calls stat()
UsesStat(strategy) == strategy \in { "keep_oldest", "keep_newest" }

\* an else branch that keeps the last file of the list
KeepFileUnknownLast(strategy, paths, mt) ==
    CASE strategy = "keep_oldest"        -> MinBy(paths, StMtime(mt))
      [] strategy = "keep_newest"        -> MaxBy(paths, StMtime(mt))
      [] strategy = "keep_shortest_path" -> MinBy(paths, PathLen)
      [] strategy = "keep_first"         -> paths[1]
      [] OTHER                           -> paths[Len(paths)]

KeepFile(strategy, paths, mt) ==
    CASE strategy = "keep_oldest"        -> MinBy(paths, StMtime(mt))
      [] strategy = "keep_newest"        -> MaxBy(paths, StMtime(mt))
      [] strategy = "keep_shortest_path" -> MinBy(paths, PathLen)
      [] strategy = "keep_first"         -> paths[1]
      [] OTHER                           -> paths[1]

\* a loop that forgets to skip the survivor
IsKeptNever(file_path, keep_file) == FALSE

\* if file_path == keep_file: continue
IsKept(file_path, keep_file) == file_path = keep_file

\* a loop that ignores the dry-run flag
OnlyReportsNever(dry) == FALSE

\* a loop that never unlinks
OnlyReportsAlways(dry) == TRUE

\* if dry_run: only log what would be deleted
OnlyReports(dry) == dry

\* file_path.unlink() succeeds: the path is still there and the system
\* does not refuse this call (refused: the calls the environment refuses)
CanUnlink(st, refused, f) == st[f] # "gone" /\ f \notin refused

\* the inner loop over one set; acc carries the filesystem and the lists
RECURSIVE DeleteOthers(_, _, _, _, _)
DeleteOthers(paths, keep_file, dry, refused, acc) ==
    IF paths = << >> THEN acc
    ELSE LET p == Head(paths)
             next ==
               IF IsKept(p, keep_file) THEN acc
               ELSE IF OnlyReports(dry)
                    THEN [ acc EXCEPT !.reported = Append(@, p) ]
               ELSE IF CanUnlink(acc.status, refused, p)
                    THEN [ acc EXCEPT !.status[p] = "gone",
                                      !.attempted = Append(@, p),
                                      !.deleted = Append(@, p) ]
                    ELSE [ acc EXCEPT !.attempted = Append(@, p) ]
         IN  DeleteOthers(Tail(paths), keep_file, dry, refused, next)

\* deleted_files = []: the call starts with empty lists, over the
\* filesystem as it is
Start(st) ==
    [ status |-> st, kept |-> << >>, reported |-> << >>,
      attempted |-> << >>, deleted |-> << >>, statted |-> {},
      warnings |-> 0, raised |-> FALSE ]

\* the outer loop: it goes through the sets in the mapping's insertion
\* order and ends at the end of the mapping, or with the exception stat()
\* raises inside min()/max(); mt is what stat() returns for each path
RECURSIVE DeleteLoop(_, _, _, _, _, _)
DeleteLoop(sets, strategy, dry, refused, mt, acc) ==
    IF sets = << >> THEN acc
    ELSE LET file_paths == Head(sets).files
         IN  IF Len(file_paths) <= 1
             THEN DeleteLoop(Tail(sets), strategy, dry, refused, mt, acc)
             ELSE IF UsesStat(strategy) /\ StatRaises(acc.status, file_paths)
             THEN [ acc EXCEPT !.raised = TRUE ]
             ELSE LET keep_file == KeepFile(strategy, file_paths, mt)
                      seen == [ acc EXCEPT
                                  !.kept = Append(@, keep_file),
                                  !.warnings = IF IsKnown(strategy)
                                               THEN @ ELSE @ + 1,
                                  !.statted = IF UsesStat(strategy)
                                              THEN @ \cup Range(file_paths)
                                              ELSE @ ]
                  IN  DeleteLoop(Tail(sets), strategy, dry, refused, mt,
                                 DeleteOthers(file_paths, keep_file, dry,
                                              refused, seen))

---------------------------------------------------------------------------
(* Initial state *)

\* the file outside the root holds "x"; the files under the root hold any
\* content
InitWith(links) ==
    /\ content \in { c \in [ Disk -> Contents ] :
                       \A f \in Outside : c[f] = "x" }
    /\ linkTo = links
    /\ mtime = << >>
    /\ status = [ f \in Disk |-> "ok" ]
    /\ envLeft = MaxEnv
    /\ tampered = FALSE
    /\ pc = "idle"
    /\ directory = "dir"
    /\ recursive = TRUE
    /\ files = << >>
    /\ hashLog = << >>
    /\ duplicates = << >>
    /\ keep_strategy = "keep_oldest"
    /\ dry_run = FALSE
    /\ kept = << >>
    /\ reported = << >>
    /\ attempted = << >>
    /\ deleted_files = << >>
    /\ warnings = 0
    /\ results = << >>

\* no path is a symbolic link
Init == InitWith(<< >>)

\* one path of the tree is a symbolic link to another
InitLinks == \E links \in Links : InitWith(links)

---------------------------------------------------------------------------
(* External activity on the filesystem while the program runs *)

\* another process removes a file, during the scan or between the scan and
\* the resolution
Vanish(f) ==
    /\ pc \in { "enumerated", "scanned" }
    /\ envLeft > 0
    /\ status[f] # "gone"
    /\ status' = [ status EXCEPT ![f] = "gone" ]
    /\ envLeft' = envLeft - 1
    /\ tampered' = (tampered \/ pc = "scanned")
    /\ UNCHANGED << content, linkTo, mtime, pc, directory, recursive, files, hashLog,
                    duplicates, keep_strategy, dry_run, kept, reported,
                    attempted, deleted_files, warnings, results >>

\* read permission on a file is revoked after the enumeration and before
\* the file is hashed
Revoke(f) ==
    /\ pc = "enumerated"
    /\ envLeft > 0
    /\ status[f] = "ok"
    /\ status' = [ status EXCEPT ![f] = "unreadable" ]
    /\ envLeft' = envLeft - 1
    /\ UNCHANGED << content, linkTo, mtime, tampered, pc, directory, recursive, files,
                    hashLog, duplicates, keep_strategy, dry_run, kept,
                    reported, attempted, deleted_files, warnings, results >>

---------------------------------------------------------------------------
(* find_duplicates, in two steps: the enumeration, then the hashing loop   *)
(* with the final filter                                                   *)

FindDuplicatesEnumerate ==
    /\ pc = "idle"
    /\ \E dir \in { "dir", "empty", "missing", "file" }, rec \in BOOLEAN :
         /\ directory' = dir
         /\ recursive' = rec
         /\ files' = EnumerateFiles(dir, rec, status)
    /\ pc' = "enumerated"
    /\ UNCHANGED << content, linkTo, mtime, status, envLeft, tampered, hashLog,
                    duplicates, keep_strategy, dry_run, kept, reported,
                    attempted, deleted_files, warnings, results >>

FindDuplicatesGroup ==
    /\ pc = "enumerated"
    /\ hashLog' = HashAll(files, status)
    /\ IF HashRaised(hashLog')
       THEN /\ pc' = "scan_failed"
            /\ UNCHANGED duplicates
       ELSE /\ pc' = "scanned"
            /\ duplicates' = OnlyDuplicates(GroupFiles(files, hashLog', << >>))
    /\ UNCHANGED << content, linkTo, mtime, status, envLeft, tampered, directory,
                    recursive, files, keep_strategy, dry_run, kept, reported,
                    attempted, deleted_files, warnings, results >>

\* the paths of all sets of a mapping
Members(sets) == UNION { Range(sets[i].files) : i \in DOMAIN sets }

\* a sum that counts every file of every set
RECURSIVE TotalFiles(_)
TotalFiles(sets) ==
    IF sets = << >> THEN 0
    ELSE Len(Head(sets).files) + TotalFiles(Tail(sets))

\* sum(len(files) - 1 for files in duplicates.values())
RECURSIVE TotalDuplicateFiles(_)
TotalDuplicateFiles(sets) ==
    IF sets = << >> THEN 0
    ELSE (Len(Head(sets).files) - 1) + TotalDuplicateFiles(Tail(sets))

\* the dictionary find_and_delete_duplicates returns
Summary(sets, deleted) ==
    [ duplicate_sets |-> Len(sets),
      total_duplicate_files |-> TotalDuplicateFiles(sets),
      deleted_files |-> Len(deleted),
      deleted_paths |-> deleted ]

\* the unlink() calls the system may refuse: any of those a live run makes
Refusals(dry, sets) == IF dry THEN { {} } ELSE SUBSET Members(sets)

\* what stat() may return for the paths a strategy calls it on
StatResults(strategy, sets) ==
    IF UsesStat(strategy)
    THEN [ { Target(f) : f \in Members(sets) } \cup Members(sets)
             -> 1..MaxTime ]
    ELSE { << >> }

---------------------------------------------------------------------------
(* delete_duplicates: the whole call, and the summary that                 *)
(* find_and_delete_duplicates builds from its result when it returns.      *)
(* Which unlink() calls the system refuses, and the times stat() returns,  *)
(* are the environment's choice.                                           *)

DeleteDuplicates ==
    /\ pc = "scanned"
    /\ \E strategy \in Strategies, dry \in BOOLEAN :
       \E refused \in Refusals(dry, duplicates),
          mt \in StatResults(strategy, duplicates) :
         LET out == DeleteLoop(duplicates, strategy, dry, refused, mt,
                               Start(status))
         IN  /\ keep_strategy' = strategy
             /\ dry_run' = dry
             /\ status' = out.status
             /\ mtime' = [ f \in out.statted |-> StMtime(mt)[f] ]
             /\ kept' = out.kept
             /\ reported' = out.reported
             /\ attempted' = out.attempted
             /\ deleted_files' = out.deleted
             /\ warnings' = out.warnings
             /\ results' = IF out.raised
                           THEN << >>
                           ELSE << Summary(duplicates, out.deleted) >>
             /\ pc' = IF out.raised THEN "failed" ELSE "done"
    /\ UNCHANGED << content, linkTo, envLeft, tampered, directory,
                    recursive, files, hashLog, duplicates >>

---------------------------------------------------------------------------
\* main: the completion status of the duplicates command once its handler
\* has ended.  An exception that leaves the handler is caught, logged, and
\* turned into sys.exit(1); a handler that returns ends the process with 0.
ExitStatus == IF pc \in { "scan_failed", "failed" } THEN 1 ELSE 0

Next ==
    \/ \E f \in RegularFiles : Vanish(f)
    \/ \E f \in RegularFiles : Revoke(f)
    \/ FindDuplicatesEnumerate
    \/ FindDuplicatesGroup
    \/ DeleteDuplicates

Spec == Init /\ [][Next]_vars

\* the same program over a tree in which one path is a symbolic link
SpecLinks == InitLinks /\ [][Next]_vars

---------------------------------------------------------------------------
(* Properties *)

\* delete_duplicates has ended, by a return or by an exception
Ended == pc \in { "done", "failed" }

\* find_duplicates has returned its mapping
Scanned == pc \in { "scanned", "done", "failed" }

SetFiles(i) == Range(duplicates[i].files)

OnDisk(f) == status[f] # "gone"

\* C1: under every strategy name and in both modes, the survivor of a set
\* is never passed to unlink(), is never in the returned list of deleted
\* paths nor reported as a would-be deletion, and is not removed from the
\* disk by the program.
C1_SurvivorExcluded ==
    \A i \in DOMAIN kept :
        /\ kept[i] \notin Range(attempted)
        /\ kept[i] \notin Range(deleted_files)
        /\ kept[i] \notin Range(reported)
        /\ (~ tampered => OnDisk(kept[i]))

\* a live run under an unrecognized strategy name that kept one file and
\* deleted another
C1_Witness ==
    /\ pc = "done" /\ ~ dry_run
    /\ keep_strategy \notin { "keep_oldest", "keep_newest",
                               "keep_shortest_path", "keep_first" }
    /\ kept # << >>
    /\ deleted_files # << >>

\* C2: when delete_duplicates has ended, every set of the mapping has
\* exactly one member classified as kept and all its other members
\* classified as deleted (unlink attempted) or, in a dry run, as would-be
\* deleted; and after a live run in which no unlink failed (and no file was
\* removed by another process) exactly the survivor of each set is on disk.
C2_OneKeptRestDeleted ==
    Ended =>
      /\ Len(kept) = Len(duplicates)
      /\ \A i \in DOMAIN duplicates :
            /\ kept[i] \in SetFiles(i)
            /\ SetFiles(i) \ { kept[i] } \subseteq
                  Range(IF dry_run THEN reported ELSE attempted)
            /\ SetFiles(i) \cap Range(IF dry_run THEN attempted ELSE reported)
                  = {}
      /\ (~ dry_run /\ attempted = deleted_files /\ ~ tampered) =>
            \A i \in DOMAIN duplicates :
                { f \in SetFiles(i) : OnDisk(f) } = { kept[i] }

\* what a later call of find_duplicates on the same root returns
Rescan == FindDuplicatesOn(directory, recursive, status)

\* a step of the program (external activity leaves pc alone) that belongs
\* to a dry run: the scan, or delete_duplicates with dry_run set
DryRunStep == pc' # pc /\ (pc \in { "idle", "enumerated" } \/ dry_run')

\* C3: no step of a dry run changes the filesystem, and when the dry run
\* has ended (no other process having touched the files since the scan)
\* find_duplicates on the same root returns the mapping it returned before.
C3_DryRunPure ==
    /\ [][DryRunStep => (status' = status /\ content' = content)]_vars
    /\ []((Ended /\ dry_run /\ ~ tampered) => Rescan = duplicates)

\* a dry run that reported a would-be deletion
C3_Witness ==
    /\ pc = "done" /\ dry_run /\ ~ tampered
    /\ reported # << >>

\* the fingerprints a file of the tree can have
Fingerprints == { Md5(c) : c \in Contents }

\* the enumerated files whose fingerprint was computed
Hashed == { f \in Range(files) : hashLog[f].readOk }

\* the enumerated files for which _calculate_hash could not read the file
Failing == { f \in Range(files) : ~ hashLog[f].readOk }

\* C4: in the returned mapping every file listed under a key has that key
\* as the fingerprint of its content, no file is listed twice (in one set
\* or in two), and no two sets have the same key.
C4_PartitionCorrect ==
    Scanned =>
      \A i \in DOMAIN duplicates :
        LET fs == duplicates[i].files
        IN  /\ \A k \in DOMAIN fs : Md5(content[fs[k]]) = duplicates[i].hash
            /\ \A k, l \in DOMAIN fs : k # l => fs[k] # fs[l]
            /\ \A j \in DOMAIN duplicates :
                  j # i => /\ duplicates[j].hash # duplicates[i].hash
                           /\ SetFiles(j) \cap SetFiles(i) = {}

\* a scan that returned two sets
C4_Witness == pc = "scanned" /\ Len(duplicates) = 2

\* C5: every returned set has at least two members; a fingerprint that two
\* or more hashed files share is returned with exactly those files; a file
\* whose fingerprint no other hashed file shares is in no returned set.
C5_OnlyAndAllDuplicates ==
    Scanned =>
      /\ \A i \in DOMAIN duplicates : Len(duplicates[i].files) >= 2
      /\ \A h \in Fingerprints :
            LET same == { f \in Hashed : Md5(content[f]) = h }
            IN  IF Cardinality(same) >= 2
                THEN \E i \in DOMAIN duplicates :
                        duplicates[i].hash = h /\ SetFiles(i) = same
                ELSE /\ \A i \in DOMAIN duplicates : duplicates[i].hash # h
                     /\ same \cap Members(duplicates) = {}

\* a scan that returned a set and left out a hashed file with unique content
C5_Witness ==
    /\ pc = "scanned"
    /\ duplicates # << >>
    /\ Hashed \ Members(duplicates) # {}

\* C6: within every returned set the files are in the order in which the
\* scan enumerated them.
C6_DiscoveryOrder ==
    Scanned =>
      \A i \in DOMAIN duplicates :
        LET fs == duplicates[i].files
        IN  \A k, l \in DOMAIN fs :
              k < l => IndexOf(files, fs[k]) < IndexOf(files, fs[l])

\* a set with, enumerated between its first two members, a file that
\* failed to hash, and a unique file left out of the result
C6_Witness ==
    /\ pc = "scanned"
    /\ Hashed \ Members(duplicates) # {}
    /\ \E i \in DOMAIN duplicates, g \in Failing :
          LET fs == duplicates[i].files
          IN  /\ IndexOf(files, fs[1]) < IndexOf(files, g)
              /\ IndexOf(files, g) < IndexOf(files, fs[2])

\* the tree without the files that failed to hash
WithoutFailing ==
    [ f \in Disk |-> IF f \in Failing THEN "gone" ELSE status[f] ]

\* C7: a file that cannot be hashed does not end the scan; it is in no
\* returned set, and the returned mapping is the one a scan of the tree
\* without the failing files returns.
C7_FailedFileSkipped ==
    /\ pc # "scan_failed"
    /\ Scanned => Failing \cap Members(duplicates) = {}
    /\ (pc = "scanned" /\ ~ tampered) =>
          duplicates = FindDuplicatesOn(directory, recursive, WithoutFailing)

\* a scan in which a file failed to hash and that still returned a set
C7_Witness ==
    /\ pc = "scanned" /\ ~ tampered
    /\ Failing # {}
    /\ duplicates # << >>

\* C8: when _calculate_hash cannot open or read the file it ends with an
\* error: it returns no value to its caller.
C8_FailureRaises ==
    \A f \in DOMAIN hashLog : ~ hashLog[f].readOk => hashLog[f].raised

\* the sets in which an unlink() call failed
FailedIn(i) == { f \in SetFiles(i) : f \in Range(attempted) \ Range(deleted_files) }

\* C9: in a live run a path whose unlink failed is not in the returned
\* list, and every other non-survivor of its set and of every later set has
\* had its deletion attempted when delete_duplicates ends.
C9_FailedUnlinkGoesOn ==
    (Ended /\ ~ dry_run) =>
      \A i \in DOMAIN duplicates :
        (i \in DOMAIN kept /\ FailedIn(i) # {}) =>
          /\ Len(deleted_files) = Cardinality(Range(attempted)) - Cardinality(
                UNION { FailedIn(j) : j \in DOMAIN kept })
          /\ \A j \in i..Len(duplicates) :
                /\ j \in DOMAIN kept
                /\ SetFiles(j) \ { kept[j] } \subseteq Range(attempted)

\* C10: when the root is not an existing directory the operation fails: it
\* returns no mapping.
C10_MissingRootFails ==
    directory \in { "missing", "file" } => pc \notin { "scanned", "done" }

\* C11: a member that no longer exists when delete_duplicates reads its
\* modification time or unlinks it does not end the call: it returns, having
\* gone through every set.
C11_ToleratesMissing ==
    Ended => (pc = "done" /\ Len(kept) = Len(duplicates))

\* the paths of all sets but the first of each, in the mapping's order:
\* what keep_first deletes
RECURSIVE AllButFirst(_)
AllButFirst(sets) ==
    IF sets = << >> THEN << >>
    ELSE Tail(Head(sets).files) \o AllButFirst(Tail(sets))

\* C12: under a strategy name that is not recognized delete_duplicates does
\* not fail; of each set it keeps the first file, deletes (in a dry run:
\* reports) all the others in order, as keep_first does, and logs a warning
\* for the set.
C12_UnknownKeepsFirst ==
    (pc \in { "done", "failed" } /\ ~ IsKnown(keep_strategy)) =>
      /\ pc = "done"
      /\ Len(kept) = Len(duplicates)
      /\ \A i \in DOMAIN duplicates : kept[i] = duplicates[i].files[1]
      /\ (IF dry_run THEN reported ELSE attempted) = AllButFirst(duplicates)
      /\ (IF dry_run THEN attempted ELSE reported) = << >>
      /\ warnings = Len(duplicates)

\* a live run under an unrecognized name over two sets, one member of which
\* another process had removed
C12_Witness ==
    /\ pc = "done" /\ ~ dry_run /\ ~ IsKnown(keep_strategy)
    /\ Len(duplicates) = 2
    /\ tampered
    /\ warnings = 2

\* the quantity the strategy minimizes: the modification time (negated for
\* keep_newest) or the length of the path string
Criterion(f) ==
    CASE keep_strategy = "keep_oldest"        -> mtime[f]
      [] keep_strategy = "keep_newest"        -> 0 - mtime[f]
      [] keep_strategy = "keep_shortest_path" -> Len(f)

ByCriterion ==
    keep_strategy \in { "keep_oldest", "keep_newest", "keep_shortest_path" }

\* C13: the survivor of a set is a member of it: under keep_oldest one with
\* the least modification time of the set, under keep_newest one with the
\* greatest, under keep_shortest_path one with the shortest path string, and
\* under keep_first the first member in discovery order.
C13_SurvivorByPolicy ==
    \A i \in DOMAIN kept :
        /\ kept[i] \in SetFiles(i)
        /\ keep_strategy = "keep_oldest" =>
              \A f \in SetFiles(i) : mtime[kept[i]] <= mtime[f]
        /\ keep_strategy = "keep_newest" =>
              \A f \in SetFiles(i) : mtime[kept[i]] >= mtime[f]
        /\ keep_strategy = "keep_shortest_path" =>
              \A f \in SetFiles(i) : Len(kept[i]) <= Len(f)
        /\ keep_strategy = "keep_first" => kept[i] = duplicates[i].files[1]

\* keep_oldest over a set whose first member is not the oldest
C13_Witness ==
    /\ pc = "done" /\ keep_strategy = "keep_oldest"
    /\ \E i \in DOMAIN kept :
          /\ kept[i] # duplicates[i].files[1]
          /\ mtime[kept[i]] < mtime[duplicates[i].files[1]]

\* the members of set i that tie with f on the criterion
Tied(i, f) == { g \in SetFiles(i) : Criterion(g) = Criterion(f) }

\* C14: when several members of a set tie on the strategy's criterion, the
\* survivor is the one of them that comes first in discovery order; this
\* determines the survivor, so a repeated resolution of the same set selects
\* the same one.
C14_TieFirstSeen ==
    ByCriterion =>
      \A i \in DOMAIN kept :
        LET fs == duplicates[i].files
            First(f) == \A g \in Tied(i, f) : IndexOf(fs, f) <= IndexOf(fs, g)
            Best(f) == \A g \in SetFiles(i) : Criterion(f) <= Criterion(g)
        IN /\ First(kept[i])
           /\ \A f \in SetFiles(i) : (Best(f) /\ First(f)) => f = kept[i]

\* keep_newest over a set of three whose second and third members tie on
\* the greatest time
C14_Witness ==
    /\ pc = "done" /\ keep_strategy = "keep_newest"
    /\ \E i \in DOMAIN kept :
          /\ Len(duplicates[i].files) = 3
          /\ kept[i] = duplicates[i].files[2]
          /\ mtime[duplicates[i].files[3]] = mtime[kept[i]]

\* the files a step removes from the disk
Removed == { f \in Disk : status[f] # "gone" /\ status'[f] = "gone" }

\* C15: the dictionary find_and_delete_duplicates returns has duplicate_sets
\* equal to the number of sets found, total_duplicate_files equal to the
\* number of members beyond one per set, and deleted_files equal to the
\* number of files the call removed from the disk; deleted_files is at most
\* total_duplicate_files, and equal to it after a live run in which no
\* unlink() failed.
C15_ReportCounts ==
    /\ [](results # << >> =>
            LET r == results[1]
            IN /\ r.duplicate_sets =
                    Cardinality({ duplicates[i].hash : i \in DOMAIN duplicates })
               /\ r.total_duplicate_files =
                    Cardinality(Members(duplicates)) - Len(duplicates)
               /\ r.deleted_files <= r.total_duplicate_files
               /\ (~ dry_run /\ attempted = deleted_files) =>
                    r.deleted_files = r.total_duplicate_files)
    /\ [][results' # results =>
            results'[1].deleted_files = Cardinality(Removed)]_vars

\* a live run over two sets that returns with one unlink() refused and one
\* file deleted
C15_Witness ==
    /\ results # << >> /\ ~ dry_run
    /\ results[1].duplicate_sets = 2
    /\ results[1].total_duplicate_files = 2
    /\ results[1].deleted_files = 1

\* the command has ended: without --delete after the scan, with --delete
\* after the resolution, or at the exception that left either
CommandEnded == pc \in { "scanned", "scan_failed", "done", "failed" }

\* C16: the duplicates command ends with a non-zero status exactly when the
\* root is missing or is not a directory; a file that cannot be hashed,
\* stat'ed or deleted never makes the status non-zero.
C16_ExitStatus ==
    CommandEnded => (ExitStatus # 0 <=> directory \in { "missing", "file" })

\* the hashed files whose content no other hashed file has
UniqueFiles ==
    { f \in Hashed :
        \A g \in Hashed \ { f } : content[Target(g)] # content[Target(f)] }

\* C17: a step of find_and_delete_duplicates changes the content of no file
\* and removes only members of the duplicate sets it found: never a file
\* whose content is unique, a file that failed to hash, or a file outside
\* the root.
C17_OnlyMembersDeleted ==
    [][pc' # pc =>
         /\ content' = content
         /\ \A f \in Disk :
               status'[f] # status[f] =>
                 /\ f \in Members(duplicates')
                 /\ f \notin UniqueFiles'
                 /\ f \notin Failing'
                 /\ f \notin Outside]_vars

\* a live run that deleted a copy of the content the file outside the root
\* holds, next to a unique file and a file that failed to hash
C17_Witness ==
    /\ pc = "done" /\ ~ dry_run
    /\ \E d \in Range(deleted_files) :
          \E z \in Outside : content[d] = content[z] /\ OnDisk(z)
    /\ \E f \in UniqueFiles : OnDisk(f)
    /\ \E f \in Failing : OnDisk(f)

\* C18: over the same mapping, timestamps and strategy name, the other mode
\* (live for a dry run, dry for a live run, whichever unlink() calls fail)
\* selects the same survivors and ends the same way, and the paths the dry
\* run reports are the paths the live run calls unlink() on, in the same
\* order; over an empty directory both modes return the same empty report.
C18_DryLiveAgree ==
    /\ [][(pc = "scanned" /\ pc' # pc) =>
            \A refused \in Refusals(~ dry_run', duplicates) :
               LET other == DeleteLoop(duplicates, keep_strategy', ~ dry_run',
                                       refused, mtime', Start(status))
               IN  /\ other.kept = kept'
                   /\ other.raised = (pc' = "failed")
                   /\ IF dry_run'
                      THEN other.attempted = reported'
                      ELSE other.reported = attempted']_vars
    /\ []((Ended /\ directory = "empty") =>
            /\ kept = << >> /\ reported = << >>
            /\ attempted = << >> /\ deleted_files = << >>
            /\ results = << [ duplicate_sets |-> 0,
                              total_duplicate_files |-> 0,
                              deleted_files |-> 0,
                              deleted_paths |-> << >> ] >>)

\* a dry run under keep_newest that reports two paths and keeps a file that
\* is not the first of its set
C18_Witness ==
    /\ pc = "done" /\ dry_run /\ keep_strategy = "keep_newest"
    /\ Len(reported) >= 2
    /\ \E i \in DOMAIN kept : kept[i] # duplicates[i].files[1]

\* C19: after a live run in which no hash and no unlink() failed and no
\* other process touched the tree, a new scan of the same root finds no
\* duplicate set and a second resolution deletes nothing.
C19_Idempotent ==
    (/\ pc = "done" /\ ~ dry_run
     /\ Failing = {}
     /\ attempted = deleted_files
     /\ envLeft = MaxEnv) =>
        /\ Rescan = << >>
        /\ LET again == DeleteLoop(Rescan, keep_strategy, FALSE, {}, mtime,
                                   Start(status))
           IN  again.deleted = << >> /\ again.status = status

\* such a run that deleted two files
C19_Witness ==
    /\ pc = "done" /\ ~ dry_run
    /\ Failing = {}
    /\ attempted = deleted_files
    /\ envLeft = MaxEnv
    /\ Len(deleted_files) >= 2

\* C20: after a live run that no other process interfered with, every
\* duplicate set has a member path that still exists and from which the
\* content of the set can be read, also when a member is a symbolic link
\* to another member.
C20_ContentKept ==
    (Ended /\ ~ dry_run /\ ~ tampered) =>
      \A i \in DOMAIN duplicates :
        \E f \in SetFiles(i) :
            /\ CanRead(status, f)
            /\ Md5(content[Target(f)]) = duplicates[i].hash

====
